---- MODULE Spec2Model ----
(***************************************************************************)
(* A model of python_examples/dpd_fast_module.py: the DPD pair force       *)
(* routine `force` and the two pairwise thermostats `lowe` and `shardlow`. *)
(*                                                                         *)
(* Numbers.  The program computes in binary floating point.  The model     *)
(* computes in binary fixed point: the real x is the integer x * Scale.    *)
(* Addition and subtraction are exact; a product, a quotient and a square  *)
(* root are rounded to the nearest representable value, ties to even, as   *)
(* IEEE arithmetic rounds them.  np.rint is round-half-to-even.            *)
(*                                                                         *)
(* Division by zero.  Lines 80 and 85 divide by the pair separation.  For  *)
(* two particles at the same place (modulo the period) the program yields  *)
(* non-finite values; the inputs drawn here hold no such pair, so Div is   *)
(* never applied to a zero divisor.                                        *)
(***************************************************************************)
EXTENDS Integers, Sequences, FiniteSets

VARIABLES
    box,          \* force argument: box length
    a,            \* force argument: strength parameter
    r,            \* force argument: n x d coordinate array, box = 1 units
    pc,           \* position of the caller / of the running routine
    i,            \* force: outer loop index (line 74)
    total,        \* force: local PotentialType accumulator (line 70)
    f,            \* force: local force array (line 71)
    pairs,        \* force: local pair list (line 72)
    ret,          \* <<>> or <<the value returned by force>> (line 100)
    prev,         \* <<>> or <<the value returned by the previous call>>
    temperature,  \* thermostat argument
    gamma_step,   \* thermostat argument
    v,            \* thermostat argument: n x 3 velocity array, updated in place
    v_in,         \* v as it was when the thermostat was entered
    algo,         \* "none", "lowe" or "shardlow"
    perm,         \* the permutation of pair indices drawn at loop entry
    k,            \* number of entries of perm consumed
    v_new,        \* shardlow: the normal draw of the pair in progress
    draws         \* the calls made on np.random so far, in order

vars == <<box, a, r, pc, i, total, f, pairs, ret, prev, temperature,
          gamma_step, v, v_in, algo, perm, k, v_new, draws>>

forceVars == <<box, a, r, i, total, f, pairs, ret, prev>>
thermoVars == <<temperature, gamma_step, v, v_in, algo, perm, k, v_new, draws>>

----------------------------------------------------------------------------
(* Fixed-point arithmetic                                                  *)

Scale == 2^10
One == Scale
Two == 2 * Scale
Three == 3 * Scale
Half == Scale \div 2
Quarter == Scale \div 4

Abs(x) == IF x < 0 THEN -x ELSE x

\* n / d for d > 0, rounded to the nearest integer, ties to even.
RoundDiv(n, d) ==
    LET q == Abs(n) \div d
        rem == Abs(n) % d
        m == IF 2 * rem > d \/ (2 * rem = d /\ q % 2 = 1) THEN q + 1 ELSE q
    IN  IF n < 0 THEN -m ELSE m

\* x * y
Mul(x, y) == RoundDiv(x * y, Scale)

\* x / y, y # 0
Div(x, y) == IF y < 0 THEN RoundDiv(-(x * Scale), -y) ELSE RoundDiv(x * Scale, y)

RECURSIVE ISqrtIn(_, _, _)
\* The largest s in lo..hi with s * s <= n, given lo * lo <= n < (hi+1)^2.
ISqrtIn(n, lo, hi) ==
    IF lo = hi THEN lo
    ELSE LET mid == (lo + hi + 1) \div 2
         IN  IF mid * mid <= n THEN ISqrtIn(n, mid, hi) ELSE ISqrtIn(n, lo, mid - 1)

\* np.sqrt(x), x >= 0
Sqrt(x) ==
    LET n == x * Scale
        s == ISqrtIn(n, 0, 8 * Scale)
    IN  IF n - s * s > s THEN s + 1 ELSE s

\* np.rint(x): the nearest integer, ties to even
Rint(x) == Scale * RoundDiv(x, Scale)

----------------------------------------------------------------------------
(* Vectors (rows of a NumPy array) are sequences of numbers.               *)

RECURSIVE SumTo(_, _)
\* s[1] + ... + s[m]
SumTo(s, m) == IF m = 0 THEN 0 ELSE SumTo(s, m - 1) + s[m]

Sum(s) == SumTo(s, Len(s))

VAdd(x, y) == [c \in DOMAIN x |-> x[c] + y[c]]
VSub(x, y) == [c \in DOMAIN x |-> x[c] - y[c]]
VScale(s, x) == [c \in DOMAIN x |-> Mul(s, x[c])]
VZero(d) == [c \in 1..d |-> 0]

\* np.dot(x, y)
Dot(x, y) == Sum([c \in DOMAIN x |-> Mul(x[c], y[c])])

RECURSIVE VSumOver(_, _, _, _)
\* g[lo] + ... + g[hi], a sum of vectors of dimension d
VSumOver(g, lo, hi, d) ==
    IF lo > hi THEN VZero(d) ELSE VAdd(VSumOver(g, lo, hi - 1, d), g[hi])

RECURSIVE SumOver(_, _, _)
SumOver(g, lo, hi) == IF lo > hi THEN 0 ELSE SumOver(g, lo, hi - 1) + g[hi]

----------------------------------------------------------------------------
(* PotentialType                                                           *)

PotentialType(pot, vir, lap) == [pot |-> pot, vir |-> vir, lap |-> lap]

PotAdd(x, y) == PotentialType(x.pot + y.pot, x.vir + y.vir, x.lap + y.lap)

----------------------------------------------------------------------------
(* force                                                                   *)

NumParticles(rr) == Cardinality(DOMAIN rr)
Dim(rr) == Len(rr[0])

\* A separation left as it is: no periodic image taken.
ImageNoWrap(x) == x

\* Line 76: a reduced separation less its nearest integer image.
Image(x) == x - Rint(x)

\* Lines 75-77: the separation vector of i and j in sigma = 1 units.
Separation(bx, rr, ii, j) ==
    [c \in 1..Dim(rr) |-> Mul(Image(rr[ii][c] - rr[j][c]), bx)]

\* Line 78
SumSq(rij) == Sum([c \in DOMAIN rij |-> Mul(rij[c], rij[c])])

\* A cutoff that takes in the pair at exactly r = 1.
InRangeInclusive(rij_sq) == rij_sq <= One

\* Line 81
InRange(rij_sq) == rij_sq < One

\* Line 82
Weight(rij_sq, rij_mag) == IF InRange(rij_sq) THEN One - rij_mag ELSE 0

\* Lines 80-86: the per-pair quantities, given the separation and the weight.
RowOf(rij, rij_sq, rij_mag, wij) ==
    [rij_mag |-> rij_mag,
     rij_hat |-> [c \in DOMAIN rij |-> Div(rij[c], rij_mag)],
     in_range |-> InRange(rij_sq),
     pot |-> Mul(Half, Mul(wij, wij)),
     vir |-> Mul(wij, rij_mag),
     lap |-> Three - Div(Two, rij_mag),
     fij |-> [c \in DOMAIN rij |-> Mul(wij, Div(rij[c], rij_mag))]]

\* Lines 79 and 82
RowOfSq(rij, rij_sq, rij_mag) == RowOf(rij, rij_sq, rij_mag, Weight(rij_sq, rij_mag))

\* Lines 78-86: the per-pair quantities of a separation vector.
RowOfSeparation(rij, rij_sq) == RowOfSq(rij, rij_sq, Sqrt(rij_sq))

\* Lines 75-86: row j of iteration i.
PairRow(rij) == RowOfSeparation(rij, SumSq(rij))

\* The pair force added to j as it is to i.
ReactionSameSign(fj, fij) == VAdd(fj, fij)

\* Line 90: the pair force acts on j with the opposite sign.
Reaction(fj, fij) == VSub(fj, fij)

RECURSIVE PairsOfRow(_, _, _, _)
\* Lines 91-92: the records of the in-range j of lo..hi, ascending j.
PairsOfRow(rows, ii, lo, hi) ==
    IF lo > hi THEN <<>>
    ELSE IF rows[hi].in_range
         THEN Append(PairsOfRow(rows, ii, lo, hi - 1),
                     <<ii, hi, rows[hi].rij_mag, rows[hi].rij_hat>>)
         ELSE PairsOfRow(rows, ii, lo, hi - 1)

\* Lines 88-92: the accumulation of the rows of iteration i.
Accumulate(rows, n, d, ii, acc) ==
    [total |-> PotAdd(acc.total,
                      PotentialType(SumOver([j \in DOMAIN rows |-> rows[j].pot], ii + 1, n - 1),
                                    SumOver([j \in DOMAIN rows |-> rows[j].vir], ii + 1, n - 1),
                                    SumOver([j \in DOMAIN rows |-> rows[j].lap], ii + 1, n - 1))),
     f |-> [p \in DOMAIN acc.f |->
              IF p = ii
              THEN VAdd(acc.f[p],
                        VSumOver([j \in DOMAIN rows |-> rows[j].fij], ii + 1, n - 1, d))
              ELSE IF p > ii THEN Reaction(acc.f[p], rows[p].fij)
              ELSE acc.f[p]],
     pairs |-> acc.pairs \o PairsOfRow(rows, ii, ii + 1, n - 1)]

\* Lines 75-92: one iteration of the loop over i.
ForceBody(bx, rr, ii, acc) ==
    Accumulate([j \in (ii + 1)..(NumParticles(rr) - 1) |->
                   PairRow(Separation(bx, rr, ii, j))],
               NumParticles(rr), Dim(rr), ii, acc)

\* Lines 95-98: the numerical factors.
ForceScaled(aa, acc) ==
    [total |-> PotentialType(Mul(acc.total.pot, aa),
                             Div(Mul(acc.total.vir, aa), Three),
                             Mul(Mul(acc.total.lap, aa), Two)),
     f |-> [p \in DOMAIN acc.f |-> [c \in DOMAIN acc.f[p] |-> Mul(acc.f[p][c], aa)]],
     pairs |-> acc.pairs]

\* A shape check that lets wider arrays through.
DimOKAtLeast(d) == d >= 3

\* Line 68
DimOK(d) == d = 3

\* Lines 67-72: the shape check and the initial values of the locals.
ForceEnter ==
    /\ pc = "call"
    /\ IF ~DimOK(Dim(r))
       THEN /\ pc' = "error"
            /\ UNCHANGED <<i, total, f, pairs>>
       ELSE /\ pc' = "loop"
            /\ i' = 0
            /\ total' = PotentialType(0, 0, 0)
            /\ f' = [p \in DOMAIN r |-> VZero(Dim(r))]
            /\ pairs' = <<>>
    /\ UNCHANGED <<box, a, r, ret, prev>>
    /\ UNCHANGED thermoVars

\* Lines 74-92: one pass of the loop body.
ForceIter ==
    /\ pc = "loop"
    /\ i < NumParticles(r) - 1
    /\ LET out == ForceBody(box, r, i, [total |-> total, f |-> f, pairs |-> pairs])
       IN  /\ total' = out.total
           /\ f' = out.f
           /\ pairs' = out.pairs
    /\ i' = i + 1
    /\ UNCHANGED <<box, a, r, pc, ret, prev>>
    /\ UNCHANGED thermoVars

\* Lines 94-100: the loop has ended; scale and return.
ForceReturn ==
    /\ pc = "loop"
    /\ i >= NumParticles(r) - 1
    /\ LET out == ForceScaled(a, [total |-> total, f |-> f, pairs |-> pairs])
       IN  /\ total' = out.total
           /\ f' = out.f
           /\ pairs' = out.pairs
           /\ ret' = <<out>>
    /\ pc' = "done"
    /\ UNCHANGED <<box, a, r, i, prev>>
    /\ UNCHANGED thermoVars

----------------------------------------------------------------------------
(* The random source.  Each call on np.random appends one entry to draws.  *)

Draw(fn, pair, val) == [fn |-> fn, pair |-> pair, val |-> val]

\* The values np.random.permutation(m) may return.
Permutations(m) ==
    {s \in [1..m -> 0..(m - 1)] : \A x, y \in 1..m : x # y => s[x] # s[y]}

\* The values np.random.rand() may return, in [0, 1).
Zetas == {z * Half : z \in 0..1}

MaxNormal == 1   \* largest |np.random.randn()|, in halves

\* The values np.random.randn() may return.
Normals == {g * Half : g \in -MaxNormal..MaxNormal} \ {0}

----------------------------------------------------------------------------
(* lowe and shardlow                                                       *)

\* Lines 114 and 143
VStd(temp) == Sqrt(Mul(Two, temp))

\* Both particles of the pair kicked the same way.
KickSameSign(vv, ii, j, vij) ==
    [p \in DOMAIN vv |->
        IF p = ii \/ p = j THEN VAdd(vv[p], VScale(Half, vij)) ELSE vv[p]]

\* The recoil taken by every particle after i, as force does with its slice.
KickTail(vv, ii, j, vij) ==
    [p \in DOMAIN vv |->
        IF p = ii THEN VAdd(vv[p], VScale(Half, vij))
        ELSE IF p > ii THEN VSub(vv[p], VScale(Half, vij))
        ELSE vv[p]]

\* Lines 124-125 (157-158, 164-165): the kick, shared between i and j.
Kick(vv, ii, j, vij) ==
    [p \in DOMAIN vv |->
        IF p = ii THEN VAdd(vv[p], VScale(Half, vij))
        ELSE IF p = j THEN VSub(vv[p], VScale(Half, vij))
        ELSE vv[p]]

\* The old projection left in place.
LoweChangeKeepOld(vnew, v_old) == vnew

\* Line 123: the change of the projection of the relative velocity.
LoweChange(vnew, v_old) == vnew - v_old

\* Lines 119-125: a collision of the pair rec with normal draw g.
LoweCollide(temp, vv, rec, g) ==
    LET ii == rec[1]
        j == rec[2]
        rij_hat == rec[4]
        vij == VSub(vv[ii], vv[j])
        v_old == Dot(vij, rij_hat)
        vnew == Mul(VStd(temp), g)
    IN  Kick(vv, ii, j, VScale(LoweChange(vnew, v_old), rij_hat))

\* Lines 148-150
SqrtProb(gam, rec) == Mul(Sqrt(gam), One - rec[3])
Prob(gam, rec) == Mul(SqrtProb(gam, rec), SqrtProb(gam, rec))

\* Lines 154-158: the first half step.
ShardlowFirst(gam, vv, rec, vnew) ==
    LET ii == rec[1]
        j == rec[2]
        rij_hat == rec[4]
        vij == VSub(vv[ii], vv[j])
        v_old == Dot(vij, rij_hat)
        c == Mul(SqrtProb(gam, rec), vnew) - Mul(Prob(gam, rec), v_old)
    IN  Kick(vv, ii, j, VScale(c, rij_hat))

\* Lines 161-165: the second half step.
ShardlowSecond(gam, vv, rec, vnew) ==
    LET ii == rec[1]
        j == rec[2]
        rij_hat == rec[4]
        vij == VSub(vv[ii], vv[j])
        v_old == Dot(vij, rij_hat)
        c == Mul(SqrtProb(gam, rec), vnew) - Mul(Prob(gam, rec), v_old)
        scaled == VScale(c, rij_hat)
    IN  Kick(vv, ii, j, [x \in DOMAIN scaled |-> Div(scaled[x], One + Prob(gam, rec))])

\* A gate that also fires on equality.
GateInclusive(zeta, gam) == zeta <= gam

\* Line 118: the Bernoulli gate.
Gate(zeta, gam) == zeta < gam

\* The normal draw made whether or not the gate fires.
LoweDrawsEager(p, zeta, g, hit) == <<Draw("rand", p, zeta), Draw("randn", p, g)>>

\* Lines 117-122: the draws of one pass: the gate, then the normal on a hit.
LoweDraws(p, zeta, g, hit) ==
    IF hit THEN <<Draw("rand", p, zeta), Draw("randn", p, g)>>
    ELSE <<Draw("rand", p, zeta)>>

\* Lines 114-116: lowe is called with the pair list force returned.
LoweEnter ==
    /\ pc = "done"
    /\ algo = "none"
    /\ algo' = "lowe"
    /\ v_in' = v
    /\ \E s \in Permutations(Len(pairs)) : perm' = s
    /\ draws' = Append(draws, Draw("permutation", -1, 0))
    /\ k' = 0
    /\ pc' = "lowe"
    /\ UNCHANGED <<temperature, gamma_step, v, v_new>>
    /\ UNCHANGED forceVars

\* Lines 116-125: one pass of the loop over the permutation.
LoweVisit ==
    /\ pc = "lowe"
    /\ k < Len(perm)
    /\ \E zeta \in Zetas :
         \/ /\ Gate(zeta, gamma_step)
            /\ \E g \in Normals :
                 /\ v' = LoweCollide(temperature, v, pairs[perm[k + 1] + 1], g)
                 /\ draws' = draws \o LoweDraws(perm[k + 1], zeta, g, TRUE)
         \/ /\ ~Gate(zeta, gamma_step)
            /\ v' = v
            /\ draws' = draws \o LoweDraws(perm[k + 1], zeta, 0, FALSE)
    /\ k' = k + 1
    /\ UNCHANGED <<temperature, gamma_step, v_in, algo, perm, v_new, pc>>
    /\ UNCHANGED forceVars

\* Line 127
LoweReturn ==
    /\ pc = "lowe"
    /\ k >= Len(perm)
    /\ pc' = "returned"
    /\ UNCHANGED thermoVars
    /\ UNCHANGED forceVars

\* Lines 142-145: shardlow is called with the pair list force returned.
ShardlowEnter ==
    /\ pc = "done"
    /\ algo = "none"
    /\ algo' = "shardlow"
    /\ v_in' = v
    /\ \E s \in Permutations(Len(pairs)) : perm' = s
    /\ draws' = Append(draws, Draw("permutation", -1, 0))
    /\ k' = 0
    /\ pc' = "shardlow"
    /\ UNCHANGED <<temperature, gamma_step, v, v_new>>
    /\ UNCHANGED forceVars

\* Lines 145-158: the draw and the first half step of the next pair.
ShardlowFirstHalf ==
    /\ pc = "shardlow"
    /\ k < Len(perm)
    /\ \E g \in Normals :
         /\ v_new' = Mul(VStd(temperature), g)
         /\ draws' = Append(draws, Draw("randn", perm[k + 1], g))
         /\ v' = ShardlowFirst(gamma_step, v, pairs[perm[k + 1] + 1], v_new')
    /\ pc' = "shardlow2"
    /\ UNCHANGED <<temperature, gamma_step, v_in, algo, perm, k>>
    /\ UNCHANGED forceVars

\* Lines 160-165: the second half step of the pair in progress.
ShardlowSecondHalf ==
    /\ pc = "shardlow2"
    /\ v' = ShardlowSecond(gamma_step, v, pairs[perm[k + 1] + 1], v_new)
    /\ k' = k + 1
    /\ pc' = "shardlow"
    /\ UNCHANGED <<temperature, gamma_step, v_in, algo, perm, v_new, draws>>
    /\ UNCHANGED forceVars

\* Line 167
ShardlowReturn ==
    /\ pc = "shardlow"
    /\ k >= Len(perm)
    /\ pc' = "returned"
    /\ UNCHANGED thermoVars
    /\ UNCHANGED forceVars

----------------------------------------------------------------------------
(* The caller between two calls of force: particles moved by whole box     *)
(* lengths.                                                                *)

MaxShift == 1    \* largest translation, in box lengths

Shifts == (-MaxShift..MaxShift) \ {0}

\* Particle p moved by t box lengths along axis c.
TranslateOne ==
    /\ pc = "done"
    /\ prev = <<>>
    /\ \E p \in DOMAIN r, c \in 1..Dim(r), t \in Shifts :
         r' = [r EXCEPT ![p][c] = @ + t * Scale]
    /\ prev' = ret
    /\ ret' = <<>>
    /\ pc' = "call"
    /\ UNCHANGED <<box, a, i, total, f, pairs>>
    /\ UNCHANGED thermoVars

\* Every particle moved by t box lengths along axis c.
TranslateAll ==
    /\ pc = "done"
    /\ prev = <<>>
    /\ \E c \in 1..Dim(r), t \in Shifts :
         r' = [p \in DOMAIN r |-> [r[p] EXCEPT ![c] = @ + t * Scale]]
    /\ prev' = ret
    /\ ret' = <<>>
    /\ pc' = "call"
    /\ UNCHANGED <<box, a, i, total, f, pairs>>
    /\ UNCHANGED thermoVars

----------------------------------------------------------------------------
(* Inputs                                                                  *)

MaxN == 3        \* most particles
MaxCoord == 2    \* largest |x| coordinate, in quarters of the box
MaxOff == 1      \* largest y and z coordinate, in quarters of the box
MaxBox == 3      \* largest box length
MaxA == 2        \* largest strength parameter
MaxDim == 4      \* largest second axis of the coordinate array

\* No two particles at the same place modulo the period.
NoCoincident(rr) ==
    \A p, q \in DOMAIN rr :
        p < q => \E c \in 1..Dim(rr) : (rr[p][c] - rr[q][c]) % Scale # 0

Sites ==
    {<<x * Quarter, y * Quarter, z * Quarter>> :
        x \in -MaxCoord..MaxCoord, y \in 0..MaxOff, z \in 0..MaxOff}

Origin(d) == [c \in 1..d |-> 0]

\* n x 3 arrays: particle 0 at the origin, the others on the sites.
Arrays3 ==
    UNION {{rr \in [0..(n - 1) -> Sites] : rr[0] = Origin(3) /\ NoCoincident(rr)} :
             n \in 2..MaxN}

\* n x d arrays with d # 3
ArraysBad ==
    UNION {{rr \in [0..(n - 1) -> [1..d -> {y * Quarter : y \in 0..MaxOff}]] :
              rr[0] = Origin(d)} :
             n \in {2}, d \in (2..MaxDim) \ {3}}

IdleThermo ==
    /\ temperature = 0
    /\ gamma_step = 0
    /\ v = <<>>
    /\ v_in = <<>>
    /\ algo = "none"
    /\ perm = <<>>
    /\ k = 0
    /\ v_new = 0
    /\ draws = <<>>

Init ==
    /\ box \in {b * Scale : b \in 1..MaxBox}
    /\ a \in {s * Scale : s \in 1..MaxA}
    /\ r \in Arrays3 \cup ArraysBad
    /\ pc = "call"
    /\ i = 0
    /\ total = PotentialType(0, 0, 0)
    /\ f = <<>>
    /\ pairs = <<>>
    /\ ret = <<>>
    /\ prev = <<>>
    /\ IdleThermo

Next == ForceEnter \/ ForceIter \/ ForceReturn

Spec == Init /\ [][Next]_vars

\* Periodic images: fewer configurations, two calls of force.
PeriodicSites ==
    {<<x * Quarter, y * Quarter, 0>> : x \in -MaxCoord..MaxCoord, y \in 0..MaxOff}

ArraysPeriodic ==
    UNION {{rr \in [0..(n - 1) -> PeriodicSites] : rr[0] = Origin(3) /\ NoCoincident(rr)} :
             n \in 2..MaxN}

InitPeriodic ==
    /\ box \in {b * Scale : b \in 1..MaxBox}
    /\ a = MaxA * Scale
    /\ r \in ArraysPeriodic
    /\ pc = "call"
    /\ i = 0
    /\ total = PotentialType(0, 0, 0)
    /\ f = <<>>
    /\ pairs = <<>>
    /\ ret = <<>>
    /\ prev = <<>>
    /\ IdleThermo

NextPeriodic == ForceEnter \/ ForceIter \/ ForceReturn \/ TranslateOne \/ TranslateAll

SpecPeriodic == InitPeriodic /\ [][NextPeriodic]_vars

\* Thermostats: one call of force, then one call of lowe or of shardlow.
MaxTemp == 1     \* largest temperature

ThermoSites ==
    {<<x * Quarter, y * Quarter, y * Quarter>> : x \in 1..MaxCoord, y \in 0..MaxOff}

ArraysThermo ==
    UNION {{rr \in [0..(n - 1) -> ThermoSites \cup {Origin(3)}] :
              rr[0] = Origin(3) /\ NoCoincident(rr)} :
             n \in 2..MaxN}

Velocities == {<<One, 0, 0>>, <<0, -One, Half>>}

InitThermo ==
    /\ box = 2 * Scale
    /\ a = Scale
    /\ r \in ArraysThermo
    /\ pc = "call"
    /\ i = 0
    /\ total = PotentialType(0, 0, 0)
    /\ f = <<>>
    /\ pairs = <<>>
    /\ ret = <<>>
    /\ prev = <<>>
    /\ temperature \in {t * Scale : t \in 1..MaxTemp}
    /\ gamma_step \in {0, Half, One}
    /\ v \in [DOMAIN r -> Velocities]
    /\ v_in = <<>>
    /\ algo = "none"
    /\ perm = <<>>
    /\ k = 0
    /\ v_new = 0
    /\ draws = <<>>

NextThermo ==
    \/ ForceEnter \/ ForceIter \/ ForceReturn
    \/ LoweEnter \/ LoweVisit \/ LoweReturn
    \/ ShardlowEnter \/ ShardlowFirstHalf \/ ShardlowSecondHalf \/ ShardlowReturn

SpecThermo == InitThermo /\ [][NextThermo]_vars

----------------------------------------------------------------------------
(* Properties of force                                                     *)

\* A coordinate in quarters of the box, an exact integer for every input.
InQuarters(x) == x \div Quarter

ImageShifts == -(MaxCoord + MaxShift)..(MaxCoord + MaxShift)

Min(S) == CHOOSE x \in S : \A y \in S : x <= y

\* The squared distance of p and q in the unit-box metric, over all periodic
\* images of q, in sixteenths.
MinImageSq16(p, q) ==
    Sum([c \in 1..Dim(r) |->
           Min({(InQuarters(r[p][c]) - InQuarters(r[q][c]) - 4 * m)
                  * (InQuarters(r[p][c]) - InQuarters(r[q][c]) - 4 * m) :
                m \in ImageShifts})])

\* The real-space squared distance of p and q, in sixteenths.
DistSq16(p, q) == (box \div Scale) * (box \div Scale) * MinImageSq16(p, q)

Near(p, q) == DistSq16(p, q) < 16

ParticlePairs == {pq \in (DOMAIN r) \X (DOMAIN r) : pq[1] < pq[2]}

(* C1: the pair list force returns holds one record for every pair i < j   *)
(* whose minimum-image squared distance is below 1 and none for any other  *)
(* pair, in ascending i and, for equal i, ascending j.                     *)
C1_PairListExact ==
    pc = "done" =>
        /\ \A x \in 1..Len(pairs) :
             /\ <<pairs[x][1], pairs[x][2]>> \in ParticlePairs
             /\ Near(pairs[x][1], pairs[x][2])
        /\ \A pq \in ParticlePairs :
             Near(pq[1], pq[2]) =>
                Cardinality({x \in 1..Len(pairs) :
                                pairs[x][1] = pq[1] /\ pairs[x][2] = pq[2]}) = 1
        /\ \A x, y \in 1..Len(pairs) :
             x < y => \/ pairs[x][1] < pairs[y][1]
                      \/ pairs[x][1] = pairs[y][1] /\ pairs[x][2] < pairs[y][2]

\* Three particles with two pairs in range and the third pair at exactly r = 1.
C1_Witness ==
    /\ pc = "done"
    /\ NumParticles(r) = 3
    /\ Len(pairs) = 2
    /\ \E pq \in ParticlePairs : DistSq16(pq[1], pq[2]) = 16

TotalForce == VSumOver(f, 0, NumParticles(r) - 1, Dim(r))

(* C2: each pair force acts on i and on j with opposite signs, so the      *)
(* forces on all particles sum to the zero vector, after every pass of the *)
(* loop and in the array returned, for every configuration, box and a.     *)
C2_ForcesSumToZero ==
    pc \in {"loop", "done"} => TotalForce = VZero(Dim(r))

\* Three particles, three pairs in range, no force zero.
C2_Witness ==
    /\ pc = "done"
    /\ Len(pairs) = 3
    /\ a = 2 * Scale
    /\ \A p \in DOMAIN f : f[p] # VZero(3)

\* The sums of the claim, over the records of the pair list.
SelectedTotal ==
    PotentialType(
        Mul(SumOver([x \in 1..Len(pairs) |->
                       Mul(Half, Mul(One - pairs[x][3], One - pairs[x][3]))],
                    1, Len(pairs)), a),
        Div(Mul(SumOver([x \in 1..Len(pairs) |-> Mul(One - pairs[x][3], pairs[x][3])],
                        1, Len(pairs)), a), Three),
        Mul(Mul(SumOver([x \in 1..Len(pairs) |-> Three - Div(Two, pairs[x][3])],
                        1, Len(pairs)), a), Two))

(* C4: the total force returns is the sum over the selected pairs only of  *)
(* 0.5*w^2, w*r and 3 - 2/r, scaled by a, a/3 and 2a; a pair outside the   *)
(* cutoff adds nothing to pot, vir or lap.                                  *)
C4_TotalOverSelectedPairs ==
    pc = "done" => ret[1].total = SelectedTotal

(* C7: with a second axis other than 3 force stops at the shape check:     *)
(* nothing is computed or returned and the positions stay as they were.    *)
C7_DimensionError ==
    [][Dim(r) # 3 =>
         /\ pc' \in {"call", "error"}
         /\ r' = r
         /\ ret' = <<>>
         /\ total' = total /\ f' = f /\ pairs' = pairs]_vars

\* The check has failed on an array with four columns.
C7_Witness == pc = "error" /\ Dim(r) = 4 /\ ret = <<>>

----------------------------------------------------------------------------
(* Properties of force under periodic translation                          *)

\* A pair in range whose reduced separation has a component of exactly half
\* a box length (modulo the period): its two nearest images are equally near.
TieInRange ==
    \E pq \in ParticlePairs :
        /\ Near(pq[1], pq[2])
        /\ \E c \in 1..Dim(r) : (r[pq[1]][c] - r[pq[2]][c]) % Scale = Half

(* C5 as stated: moving particles by whole box lengths leaves the total    *)
(* potential, the total virial and the force on every particle unchanged,  *)
(* separations of exactly half a box length included.                      *)
C5_TranslationInvariant ==
    pc = "done" /\ prev # <<>> =>
        /\ ret[1].total.pot = prev[1].total.pot
        /\ ret[1].total.vir = prev[1].total.vir
        /\ ret[1].f = prev[1].f

(* C5 as amended: the total potential and the total virial are unchanged;  *)
(* the forces are unchanged when no pair in range has a separation         *)
(* component of exactly half a box length.                                 *)
C5_TranslationInvariantOffTies ==
    pc = "done" /\ prev # <<>> =>
        /\ ret[1].total.pot = prev[1].total.pot
        /\ ret[1].total.vir = prev[1].total.vir
        /\ ~TieInRange => ret[1].f = prev[1].f

\* A second call on moved particles, three pairs in range, none at a tie.
C5_Witness ==
    /\ pc = "done"
    /\ prev # <<>>
    /\ Len(pairs) = 3
    /\ ~TieInRange
    /\ \E p \in DOMAIN r : \E c \in 1..3 : Abs(r[p][c]) >= Scale
    /\ \A p \in DOMAIN f : f[p] # VZero(3)

----------------------------------------------------------------------------
(* Properties of lowe and shardlow                                         *)

ThermoPcs == {"lowe", "shardlow", "shardlow2", "returned"}

Momentum(vv) == VSumOver(vv, 0, NumParticles(vv) - 1, 3)

(* C3: the total momentum is the same after every pair update of lowe and  *)
(* after every half step of shardlow as it was on entry, hence after the   *)
(* whole call, for every order, every draw and every gamma_step.           *)
C3_MomentumConserved ==
    pc \in ThermoPcs => Momentum(v) = Momentum(v_in)

\* Between the half steps of the second pair, velocities already changed.
C3_Witness ==
    /\ pc = "shardlow2"
    /\ k = 1
    /\ gamma_step = One
    /\ \A p \in DOMAIN v : v[p] # v_in[p]

(* C6: with gamma_step = 0 neither thermostat changes any velocity, at any *)
(* point of the call, for every pair list, order and draw.                 *)
C6_ZeroGammaNoOp ==
    pc \in ThermoPcs /\ gamma_step = 0 => v = v_in

\* shardlow has gone through three pairs with gamma_step = 0.
C6_Witness ==
    /\ pc = "returned"
    /\ algo = "shardlow"
    /\ gamma_step = 0
    /\ Len(pairs) = 3
    /\ Len(draws) = 4

RECURSIVE LoweLogOK(_, _)
\* From entry x on, the log is a run of passes: a gate draw, followed by a
\* normal draw for the same pair exactly when the gate draw is below gamma_step.
LoweLogOK(log, x) ==
    IF x > Len(log) THEN TRUE
    ELSE /\ log[x].fn = "rand"
         /\ IF log[x].val < gamma_step
            THEN /\ x + 1 <= Len(log)
                 /\ log[x + 1].fn = "randn"
                 /\ log[x + 1].pair = log[x].pair
                 /\ LoweLogOK(log, x + 2)
            ELSE LoweLogOK(log, x + 1)

IsRand(e) == e.fn = "rand"

\* The pairs of the entries of a log, in order.
PairsOfLog(log) == [x \in 1..Len(log) |-> log[x].pair]

\* The passes begun so far.
Begun == IF pc = "shardlow2" THEN k + 1 ELSE k

(* C8: one permutation is drawn first; the pairs are then visited one at a *)
(* time in that order, each once, and the call returns after len(pairs)    *)
(* visits; a pass of lowe draws the gate and then, only on a hit, the      *)
(* normal; a pass of shardlow draws one normal before its first half step  *)
(* and uses it again in the second.                                        *)
C8_DrawOrder ==
    pc \in ThermoPcs =>
        /\ Len(draws) >= 1
        /\ draws[1].fn = "permutation"
        /\ \A x \in 2..Len(draws) : draws[x].fn # "permutation"
        /\ perm \in Permutations(Len(pairs))
        /\ k <= Len(perm)
        /\ pc = "returned" => k = Len(pairs)
        /\ algo = "lowe" =>
             /\ LoweLogOK(Tail(draws), 1)
             /\ PairsOfLog(SelectSeq(Tail(draws), IsRand)) = SubSeq(perm, 1, k)
        /\ algo = "shardlow" =>
             /\ \A x \in 2..Len(draws) : draws[x].fn = "randn"
             /\ PairsOfLog(Tail(draws)) = SubSeq(perm, 1, Begun)
             /\ pc = "shardlow2" => v_new = Mul(VStd(temperature), draws[Len(draws)].val)

\* lowe has returned after three passes, some with a hit and some without.
C8_Witness ==
    /\ pc = "returned"
    /\ algo = "lowe"
    /\ Len(pairs) = 3
    /\ Len(draws) \in {5, 6}
    /\ perm # <<0, 1, 2>>

Tol == Scale \div 128   \* rounding allowance of the comparisons below

Close(x, y) == Abs(x - y) <= Tol

\* The part of u at right angles to the unit vector e.
Perp(u, e) == VSub(u, VScale(Dot(u, e), e))

\* The pair being visited.
Current == pairs[perm[k + 1] + 1]

(* C9: right after a collision in lowe the relative velocity of the pair   *)
(* along its unit vector is the value drawn, v_std * randn, whatever the   *)
(* earlier pairs did to the two velocities, and its part at right angles   *)
(* to the unit vector is as before (both up to rounding).                  *)
C9_LoweProjection ==
    [][pc = "lowe" /\ Len(draws') = Len(draws) + 2 =>
         /\ Close(Dot(VSub(v'[Current[1]], v'[Current[2]]), Current[4]),
                  Mul(VStd(temperature), draws'[Len(draws')].val))
         /\ \A c \in 1..3 :
              Close(Perp(VSub(v'[Current[1]], v'[Current[2]]), Current[4])[c],
                    Perp(VSub(v[Current[1]], v[Current[2]]), Current[4])[c])]_vars

\* lowe has collided two pairs in a row.
C9_Witness ==
    /\ pc = "lowe"
    /\ k = 2
    /\ Len(draws) = 5
    /\ \A p \in DOMAIN v : v[p] # v_in[p]

\* The particles of the pairs a normal draw was made for.
Kicked ==
    UNION {{pairs[draws[x].pair + 1][1], pairs[draws[x].pair + 1][2]} :
             x \in {y \in 2..Len(draws) : draws[y].fn = "randn"}}

(* C10: a thermostat call changes the velocity only of particles that are  *)
(* i or j of a pair it updated (in lowe, a pair whose gate fired); the     *)
(* pair list is as force returned it, and with no pairs no velocity        *)
(* changes.                                                                *)
C10_OnlyPairEndpointsChange ==
    pc \in ThermoPcs =>
        /\ \A p \in DOMAIN v : v[p] # v_in[p] => p \in Kicked
        /\ pairs = ret[1].pairs
        /\ Len(pairs) = 0 => v = v_in

\* A call has returned having changed some velocities and left alone a
\* particle that is in no pair.
C10_Witness ==
    /\ pc = "returned"
    /\ v # v_in
    /\ \E p \in DOMAIN v :
         /\ v[p] = v_in[p]
         /\ \A x \in 1..Len(pairs) : pairs[x][1] # p /\ pairs[x][2] # p

====
